---- MODULE Spec2Model ----
(***************************************************************************)
(* A model of the sun-times library (src/src/lib.rs): the JulianDate       *)
(* conversions, sun_times and altitude.                                    *)
(*                                                                         *)
(* Numbers.  The library computes in f64.  The model computes in decimal   *)
(* fixed point with six fractional digits: the integer v stands for the    *)
(* real v / SCALE, and every operation rounds its exact result to the      *)
(* nearest representable value, as IEEE arithmetic does on a finer grid.   *)
(* An f64 that may be NaN is a tuple: <<>> for NaN, <<v>> for a number.    *)
(* A quantity too large for one machine integer (a Julian date, the mean   *)
(* solar time, the sidereal time) is a record [w, u] standing for          *)
(* w + u / SCALE with 0 <= u < SCALE.                                      *)
(*                                                                         *)
(* Time.  A NaiveDate is its day number since 1970-01-01; a DateTime<Utc>  *)
(* is [days, secs, nanos]: day number, second of the day, nanoseconds.     *)
(* Its UTC calendar date is its day number.                                *)
(***************************************************************************)
EXTENDS Integers, Sequences, FiniteSets

VARIABLES pc, args, locals, result

vars == <<pc, args, locals, result>>

----------------------------------------------------------------------------
(* f64 as fixed point *)

SCALE == 1000000

NaN == <<>>

Num(v) == <<v>>

is_nan(x) == x = NaN

Val(x) == x[1]

None == <<>>

Some(v) == <<v>>

Abs(x) == IF x < 0 THEN -x ELSE x

Sgn(x) == IF x < 0 THEN -1 ELSE IF x > 0 THEN 1 ELSE 0

\* v is evaluated once and F applied to its value: the operations below take
\* their operands as values, as machine arithmetic does
Bind(v, F(_)) == CHOOSE r \in {F(x) : x \in {v}} : TRUE

\* a / b for b > 0, rounded to the nearest integer, halves away from zero
RoundDiv[a \in Int, b \in Int] ==
    Sgn(a) * ((Abs(a) \div b) + (IF 2 * (Abs(a) % b) >= b THEN 1 ELSE 0))

\* f64::round on a value given as a fraction a / b
round(a, b) == RoundDiv[a, b]

\* `as i64` alone on a / b: the fraction is cut off
Truncate(a, b) == Bind(a, LAMBDA x : Sgn(x) * (Abs(x) \div b))

\* the product of two fixed-point numbers, formed from their thousands so
\* that no intermediate leaves the machine integers
Mul[a \in Int, b \in Int] ==
    LET ah == Abs(a) \div 1000
        al == Abs(a) % 1000
        bh == Abs(b) \div 1000
        bl == Abs(b) % 1000
    IN  Sgn(a) * Sgn(b)
          * (ah * bh + ((ah * bl + al * bh) \div 1000)
               + RoundDiv[((ah * bl + al * bh) % 1000) * 1000 + al * bl, SCALE])

\* the quotient of two fixed-point numbers by long division.  0/0 is NaN; a
\* quotient of magnitude 2 or more (a division by zero included) is reported
\* as +-2: its only consumer, acos, is undefined beyond +-1.
Div[a \in Int, b \in Int] ==
    LET A  == Abs(a)
        B  == Abs(b)
        r0 == A % B
        r1 == (r0 * 1000) % B
        r2 == (r1 * 1000) % B
    IN  IF b = 0 THEN (IF a = 0 THEN NaN ELSE Num(Sgn(a) * 2 * SCALE))
        ELSE IF A >= 2 * B THEN Num(Sgn(a) * Sgn(b) * 2 * SCALE)
        ELSE Num(Sgn(a) * Sgn(b)
                   * ((A \div B) * SCALE + ((r0 * 1000) \div B) * 1000 + ((r1 * 1000) \div B)
                        + (IF 2 * r2 >= B THEN 1 ELSE 0)))

\* pi, pi/2 and 2 pi, cut to six digits
PI == 3141592

HALF_PI == 1570796

TWO_PI == 6283185

\* f64::to_radians: x * (pi / 180), pi / 180 = 0.0174532925
to_radians[x \in Int] ==
    Sgn(x) * ((Abs(x) \div SCALE) * 17453 + RoundDiv[(Abs(x) \div SCALE) * 2925, 10000]
                + Mul[Abs(x) % SCALE, 17453])

\* f64::to_degrees: x * (180 / pi), 180 / pi = 57.295780
to_degrees[x \in Int] == Mul[x, 57295780]

\* the Taylor series of the sine on [-pi/2, pi/2], to the term x^11, by
\* Horner's rule in x2 = x * x
SinHorner[x \in Int, x2 \in Int] ==
    LET t5 == SCALE - RoundDiv[x2, 110]
        t4 == SCALE - RoundDiv[Mul[x2, t5], 72]
        t3 == SCALE - RoundDiv[Mul[x2, t4], 42]
        t2 == SCALE - RoundDiv[Mul[x2, t3], 20]
        t1 == SCALE - RoundDiv[Mul[x2, t2], 6]
    IN  Mul[x, t1]

SinSeries[x \in Int] == SinHorner[x, Mul[x, x]]

\* the Taylor series of the cosine on [0, pi/2], to the term x^12
CosHorner[x2 \in Int] ==
    LET t6 == SCALE - RoundDiv[x2, 132]
        t5 == SCALE - RoundDiv[Mul[x2, t6], 90]
        t4 == SCALE - RoundDiv[Mul[x2, t5], 56]
        t3 == SCALE - RoundDiv[Mul[x2, t4], 30]
        t2 == SCALE - RoundDiv[Mul[x2, t3], 12]
    IN  SCALE - RoundDiv[Mul[x2, t2], 2]

CosSeries[x \in Int] == CosHorner[Mul[x, x]]

\* an angle in radians brought into (-pi, pi]
Reduce[x \in Int] == IF x % TWO_PI > PI THEN (x % TWO_PI) - TWO_PI ELSE x % TWO_PI

\* the sine of an angle in (-pi, pi]
SinReduced[r \in Int] ==
    IF r > HALF_PI THEN SinSeries[PI - r]
    ELSE IF r < -HALF_PI THEN SinSeries[-PI - r]
    ELSE SinSeries[r]

\* the cosine of an angle in [0, pi]
CosReduced[r \in Int] == IF r > HALF_PI THEN -CosSeries[PI - r] ELSE CosSeries[r]

\* f64::sin (radians)
sin[x \in Int] == SinReduced[Reduce[x]]

\* f64::cos (radians)
cos[x \in Int] == CosReduced[Abs(Reduce[x])]

\* the angle in [lo, hi] whose sine is nearest v, by bisection
ASinSearch[lo \in Int, hi \in Int, v \in Int] ==
    IF hi - lo <= 1
    THEN (IF v - sin[lo] <= sin[hi] - v THEN lo ELSE hi)
    ELSE IF sin[(lo + hi) \div 2] <= v
         THEN ASinSearch[(lo + hi) \div 2, hi, v]
         ELSE ASinSearch[lo, (lo + hi) \div 2, v]

\* f64::asin: NaN outside [-1, 1], else the angle in [-pi/2, pi/2] whose sine
\* is nearest v
asin[v \in Int] ==
    IF Abs(v) > SCALE THEN NaN
    ELSE IF v = SCALE THEN Num(HALF_PI)
    ELSE IF v = -SCALE THEN Num(-HALF_PI)
    ELSE Num(ASinSearch[-HALF_PI, HALF_PI, v])

\* the angle in [lo, hi] whose cosine is nearest v, by bisection
ACosSearch[lo \in Int, hi \in Int, v \in Int] ==
    IF hi - lo <= 1
    THEN (IF cos[lo] - v <= v - cos[hi] THEN lo ELSE hi)
    ELSE IF cos[(lo + hi) \div 2] >= v
         THEN ACosSearch[(lo + hi) \div 2, hi, v]
         ELSE ACosSearch[lo, (lo + hi) \div 2, v]

\* f64::acos of a number: NaN outside [-1, 1], else the angle in [0, pi]
\* whose cosine is nearest
AcosOfNumber[v \in Int] ==
    IF Abs(v) > SCALE THEN NaN
    ELSE IF v = SCALE THEN Num(0)
    ELSE IF v = -SCALE THEN Num(PI)
    ELSE Num(ACosSearch[0, PI, v])

\* f64::acos of a value that may be NaN
acos(x) == Bind(x, LAMBDA a : IF is_nan(a) THEN NaN ELSE AcosOfNumber[Val(a)])

\* the angle in [lo, hi] of the point (x, y), y > 0, by bisection on the sign
\* of y cos(t) - x sin(t)
ATan2Search[lo \in Int, hi \in Int, y \in Int, x \in Int] ==
    IF hi - lo <= 1 THEN lo
    ELSE IF Mul[y, cos[(lo + hi) \div 2]] - Mul[x, sin[(lo + hi) \div 2]] >= 0
         THEN ATan2Search[(lo + hi) \div 2, hi, y, x]
         ELSE ATan2Search[lo, (lo + hi) \div 2, y, x]

\* f64::atan2: the angle in (-pi, pi] of the point (x, y)
atan2[y \in Int, x \in Int] ==
    IF y = 0 THEN (IF x >= 0 THEN 0 ELSE PI)
    ELSE IF y > 0 THEN ATan2Search[0, PI, y, x]
    ELSE -ATan2Search[0, PI, -y, x]

\* the largest argument the square root search squares without overflow
SQRT_MAX == 46000000

\* y * y rounded up to the grid: SquareUp[y] <= v exactly when y * y <= v
SquareUp[y \in Int] ==
    LET yh == y \div 1000
        yl == y % 1000
        r  == ((2 * yh * yl) % 1000) * 1000 + yl * yl
    IN  yh * yh + ((2 * yh * yl) \div 1000) + (r \div SCALE)
          + (IF r % SCALE > 0 THEN 1 ELSE 0)

SqrtSearch[lo \in Int, hi \in Int, v \in Int] ==
    IF hi - lo <= 1 THEN lo
    ELSE IF SquareUp[(lo + hi) \div 2] <= v
         THEN SqrtSearch[(lo + hi) \div 2, hi, v]
         ELSE SqrtSearch[lo, (lo + hi) \div 2, v]

\* f64::sqrt: NaN for a negative number, else the largest y with y * y <= x
sqrt[x \in Int] == IF x < 0 THEN NaN ELSE Num(SqrtSearch[0, SQRT_MAX, x])

----------------------------------------------------------------------------
(* wide numbers *)

W[w \in Int, u \in Int] == [w |-> w + (u \div SCALE), u |-> u % SCALE]

WAdd(a, b) == Bind(a, LAMBDA x : Bind(b, LAMBDA y : W[x.w + y.w, x.u + y.u]))

WSub(a, b) == Bind(a, LAMBDA x : Bind(b, LAMBDA y : W[x.w - y.w, x.u - y.u]))

WNeg(a) == Bind(a, LAMBDA x : W[-x.w, -x.u])

----------------------------------------------------------------------------
(* struct JulianDate(f64) and the constants *)

UNIX_EPOCH == [w |-> 2440587, u |-> 500000]

SECONDS_PER_DAY == 86400

JAN_2000 == [w |-> 2451545, u |-> 0]

LEAP_SECONDS == [w |-> 0, u |-> 800]

OBLIQUITY_OF_THE_ECLIPTIC == 23440000

ARGUMENT_OF_PERIHELION == 102937200

FULL_CIRCLE == 360 * SCALE

\* impl Sub<JulianDate> for JulianDate
sub(self, rhs) == WSub(self, rhs)

\* impl Add<JulianDate> for JulianDate
add(self, rhs) == WAdd(self, rhs)

\* JulianDate::ceil_days
ceil_days(self) == self.w + (IF self.u > 0 THEN 1 ELSE 0)

\* the day numbers chrono's DateTime<Utc> can hold: those of the years
\* -262143 .. 262142
MIN_UTC_DAY == -96465293

MAX_UTC_DAY == 95026236

\* Utc.timestamp_opt(secs, 0).single(), the second count given as whole days
\* and seconds of the day
timestamp_opt(days, secs) ==
    IF days >= MIN_UTC_DAY /\ days <= MAX_UTC_DAY
    THEN Some([days |-> days, secs |-> secs, nanos |-> 0])
    ELSE None

\* the conversion mutated: the seconds are cut, not rounded
ToDatetimeTruncating(self) ==
    Bind(sub(self, UNIX_EPOCH), LAMBDA x :
    Bind(Truncate(x.u * 54, 625), LAMBDA s :
        timestamp_opt(x.w + (s \div SECONDS_PER_DAY), s % SECONDS_PER_DAY)))

\* JulianDate::to_datetime: ((self - UNIX_EPOCH).0 * SECONDS_PER_DAY).round();
\* u / SCALE of a day is u * 86400 / 1000000 = u * 54 / 625 seconds
to_datetime(self) ==
    Bind(sub(self, UNIX_EPOCH), LAMBDA x :
    Bind(round(x.u * 54, 625), LAMBDA s :
        timestamp_opt(x.w + (s \div SECONDS_PER_DAY), s % SECONDS_PER_DAY)))

\* DateTime::timestamp, as whole days and seconds of the day: the
\* nanoseconds are dropped
timestamp(date) == [days |-> date.days, secs |-> date.secs]

\* the conversion mutated: the Julian date of the Unix epoch taken as a whole
\* number, 2440588, the half day lost
FromNoonEpoch(date) ==
    add(W[timestamp(date).days, RoundDiv[timestamp(date).secs * 625, 54]],
        [w |-> UNIX_EPOCH.w + 1, u |-> 0])

\* impl From<DateTime<Utc>> for JulianDate:
\* timestamp / SECONDS_PER_DAY + UNIX_EPOCH; secs / 86400 of a day is
\* secs * 625 / 54 millionths
from(date) ==
    LET t == timestamp(date)
    IN  add(W[t.days, RoundDiv[t.secs * 625, 54]], UNIX_EPOCH)

\* date.and_hms_opt(0, 0, 0)?.and_local_timezone(Utc).single()?
and_hms_opt(date, h, m, s) ==
    [days |-> date, secs |-> (h * 60 + m) * 60 + s, nanos |-> 0]

----------------------------------------------------------------------------
(* the solar position, computed alike by sun_times and altitude *)

\* f64::rem_euclid by a positive modulus
rem_euclid(x, m) == x % m

\* a * n modulo m by doubling, for 0 <= a < m and n >= 0
MulMod[a \in Int, n \in Int, m \in Int] ==
    IF n = 0 THEN 0 ELSE (2 * MulMod[a, n \div 2, m] + (n % 2) * a) % m

\* (357.5291 + 0.98560028 * mean_solar_time).rem_euclid(360.0): the product
\* is taken modulo 360 part by part, 0.98560028 = 0.985600 + 0.00000028
solar_mean_anomaly(mean_solar_time) ==
    LET n     == Abs(mean_solar_time.w)
        whole == (MulMod[985600, n, FULL_CIRCLE]
                    + (n \div 100) * 28 + RoundDiv[(n % 100) * 28, 100]) % FULL_CIRCLE
    IN  rem_euclid(357529100 + Sgn(mean_solar_time.w) * whole
                     + Mul[mean_solar_time.u, 985600], FULL_CIRCLE)

\* the day count mutated: rounded down, not up
DaysSince2000Floor(julian_date) == add(sub(julian_date, JAN_2000), LEAP_SECONDS).w

\* (julian_date - JAN_2000 + LEAP_SECONDS).ceil_days()
days_since_2000(julian_date) == ceil_days(add(sub(julian_date, JAN_2000), LEAP_SECONDS))

\* days_since_2000 - (longitude / 360.0)
mean_solar_time(days, longitude) == W[days, -RoundDiv[longitude, 360]]

\* 1.9148 sin(M) + 0.0200 sin(2M) + 0.0003 sin(3M)
center(M) ==
    Mul[1914800, sin[to_radians[M]]]
      + Mul[20000, sin[to_radians[2 * M]]]
      + Mul[300, sin[to_radians[3 * M]]]

\* (solar_mean_anomaly + center + 180.0 + ARGUMENT_OF_PERIHELION).rem_euclid(360.0)
ecliptic_longitude(M, C) ==
    rem_euclid(M + C + 180 * SCALE + ARGUMENT_OF_PERIHELION, FULL_CIRCLE)

\* ecliptic_longitude.to_radians().sin() * OBLIQUITY_OF_THE_ECLIPTIC.to_radians().sin()
sin_declination(L) ==
    Mul[sin[to_radians[L]], sin[to_radians[OBLIQUITY_OF_THE_ECLIPTIC]]]

\* sin_declination.asin(), in radians; the product of two sines, one of
\* them sin(23.44 deg), is inside asin's domain
declination(L) == Val(asin[sin_declination(L)])

\* the locals the two functions share
SolarPosition(julian_date, longitude) ==
    Bind(days_since_2000(julian_date), LAMBDA d :
    Bind(mean_solar_time(d, longitude), LAMBDA mst :
    Bind(solar_mean_anomaly(mst), LAMBDA M :
    Bind(center(M), LAMBDA C :
    Bind(ecliptic_longitude(M, C), LAMBDA L :
        [days_since_2000 |-> d, mean_solar_time |-> mst, solar_mean_anomaly |-> M,
         center |-> C, ecliptic_longitude |-> L, declination |-> declination(L)])))))

----------------------------------------------------------------------------
(* sun_times *)

\* the square root mutated: of the magnitude, so never NaN
SqrtOfMagnitude(elevation) ==
    Bind(sqrt[Abs(elevation)], LAMBDA s : Num(RoundDiv[Mul[-2076000, Val(s)], 60]))

\* -2.076 * (elevation.sqrt()) / 60.0
elevation_correction(elevation) ==
    Bind(sqrt[elevation], LAMBDA s :
        IF is_nan(s) THEN NaN ELSE Num(RoundDiv[Mul[-2076000, Val(s)], 60]))

\* the constant mutated to the one of the textbook formula
HorizonStandard == -833 * 1000

\* the -0.83 of the hour-angle equation
HORIZON == -830000

\* the argument of the arccosine:
\* ((-0.83 + elevation_correction).to_radians().sin()
\*    - latitude.to_radians().sin() * declination.sin())
\*  / (latitude.to_radians().cos() * declination.cos())
hour_angle_argument(latitude, decl, correction) ==
    IF is_nan(correction) THEN NaN
    ELSE Div[sin[to_radians[HORIZON + Val(correction)]]
               - Mul[sin[to_radians[latitude]], sin[decl]],
             Mul[cos[to_radians[latitude]], cos[decl]]]

\* the arccosine mutated: its argument clamped into [-1, 1]
AcosClamped(argument) ==
    IF is_nan(argument) THEN NaN
    ELSE Bind(acos(IF Val(argument) > SCALE THEN Num(SCALE)
                   ELSE IF Val(argument) < -SCALE THEN Num(-SCALE)
                   ELSE argument),
              LAMBDA a : Num(to_degrees[Val(a)]))

\* (...).acos().to_degrees()
event_hour_angle(argument) ==
    Bind(acos(argument), LAMBDA a :
        IF is_nan(a) THEN NaN ELSE Num(to_degrees[Val(a)]))

\* JAN_2000.0 + mean_solar_time + 0.0053 sin(M) - 0.0069 sin(2 L)
solar_transit(mst, M, L) ==
    add(add(JAN_2000, mst),
        W[0, Mul[5300, sin[to_radians[M]]] - Mul[6900, sin[to_radians[2 * L]]]])

\* rise and set mutated: the hour angle added for the rise, subtracted for
\* the set
RiseSetSwapped(transit, hour_angle) ==
    [rise |-> add(transit, W[0, RoundDiv[hour_angle, 360]]),
     set  |-> sub(transit, W[0, RoundDiv[hour_angle, 360]])]

\* julian_rise and julian_set: solar_transit -+ event_hour_angle / 360.0
julian_rise_set(transit, hour_angle) ==
    [rise |-> sub(transit, W[0, RoundDiv[hour_angle, 360]]),
     set  |-> add(transit, W[0, RoundDiv[hour_angle, 360]])]

\* the return mutated: no is_nan test.  A NaN hour angle makes both Julian
\* dates NaN, NaN.round() as i64 is 0, and both instants are the Unix epoch
ReturnWithoutNanTest(transit, hour_angle) ==
    IF is_nan(hour_angle)
    THEN Some([rise |-> Val(timestamp_opt(0, 0)), set |-> Val(timestamp_opt(0, 0))])
    ELSE Bind(julian_rise_set(transit, Val(hour_angle)), LAMBDA j :
         Bind(to_datetime(j.rise), LAMBDA rise :
         Bind(to_datetime(j.set), LAMBDA set :
             IF rise # None /\ set # None
             THEN Some([rise |-> Val(rise), set |-> Val(set)]) ELSE None)))

\* the end of sun_times: None for a NaN hour angle, else the two instants if
\* both conversions succeed
sun_times_return(transit, hour_angle) ==
    IF is_nan(hour_angle) THEN None
    ELSE Bind(julian_rise_set(transit, Val(hour_angle)), LAMBDA j :
         Bind(to_datetime(j.rise), LAMBDA rise :
         Bind(to_datetime(j.set), LAMBDA set :
             IF rise # None /\ set # None
             THEN Some([rise |-> Val(rise), set |-> Val(set)]) ELSE None)))

\* sun_times(date, latitude, longitude, elevation): its locals and, in
\* returned, what it returns
sun_times(date, latitude, longitude, elevation) ==
    Bind(from(and_hms_opt(date, 0, 0, 0)), LAMBDA julian_date :
    Bind(elevation_correction(elevation), LAMBDA correction :
    Bind(SolarPosition(julian_date, longitude), LAMBDA p :
    Bind(hour_angle_argument(latitude, p.declination, correction), LAMBDA argument :
    Bind(event_hour_angle(argument), LAMBDA hour_angle :
    Bind(solar_transit(p.mean_solar_time, p.solar_mean_anomaly, p.ecliptic_longitude),
         LAMBDA transit :
        [julian_date |-> julian_date, elevation_correction |-> correction,
         position |-> p, argument |-> argument, event_hour_angle |-> hour_angle,
         solar_transit |-> transit,
         julian |-> IF is_nan(hour_angle) THEN None
                    ELSE Some(julian_rise_set(transit, Val(hour_angle))),
         returned |-> sun_times_return(transit, hour_angle)]))))))

----------------------------------------------------------------------------
(* altitude *)

\* Timelike::hour, minute and second of a DateTime<Utc>
hour(date_time) == date_time.secs \div 3600

minute(date_time) == (date_time.secs % 3600) \div 60

second(date_time) == date_time.secs % 60

\* (...).atan2(ecliptic_longitude.to_radians().cos()).to_degrees()
right_ascension(L) ==
    to_degrees[atan2[Mul[sin[to_radians[L]], cos[to_radians[OBLIQUITY_OF_THE_ECLIPTIC]]],
                     cos[to_radians[L]]]]

\* (hour + minute / 60.0 + second / 60.0 * 60.0) * 15.0: the seconds are
\* divided by 60 and multiplied by 60 again
time_of_day_angle(date_time) ==
    (hour(date_time) * SCALE
       + RoundDiv[minute(date_time) * SCALE, 60]
       + RoundDiv[second(date_time) * SCALE, 60] * 60) * 15

\* longitude.to_degrees(), which may exceed one machine integer: a wide number
longitude_to_degrees(longitude) ==
    LET A == Abs(longitude)
        v == W[(A \div SCALE) * 57, (A \div SCALE) * 295780 + Mul[A % SCALE, 57295780]]
    IN  IF longitude >= 0 THEN v ELSE WNeg(v)

\* greenwich_sidereal_time + (...) * 15.0 + longitude.to_degrees(), with
\* greenwich_sidereal_time = mean_solar_time + 0.0
local_sideral_time(mst, date_time, longitude) ==
    WAdd(WAdd(mst, W[0, time_of_day_angle(date_time)]), longitude_to_degrees(longitude))

\* local_hour_angle.to_radians().cos(): the cosine has period 360 degrees,
\* and the wide angle is brought into [0, 360) before the conversion
cos_of_wide_degrees(a) == cos[to_radians[(a.w % 360) * SCALE + a.u]]

\* sin(lat) sin(decl) + cos(lat) cos(decl) cos(local_hour_angle)
sin_altitude(latitude, decl, local_hour_angle) ==
    Mul[sin[to_radians[latitude]], sin[decl]]
      + Mul[Mul[cos[to_radians[latitude]], cos[decl]], cos_of_wide_degrees(local_hour_angle)]

\* altitude(date_time, latitude, longitude): its locals and, in returned, what
\* it returns: sin_altitude.asin().to_degrees(), NaN if the arcsine is
altitude(date_time, latitude, longitude) ==
    Bind(SolarPosition(from(date_time), longitude), LAMBDA p :
    Bind(right_ascension(p.ecliptic_longitude), LAMBDA ra :
    Bind(local_sideral_time(p.mean_solar_time, date_time, longitude), LAMBDA lst :
    Bind(WSub(lst, W[0, ra]), LAMBDA lha :
    Bind(sin_altitude(latitude, p.declination, lha), LAMBDA sa :
    Bind(asin[sa], LAMBDA a :
        [position |-> p, right_ascension |-> ra, local_sideral_time |-> lst,
         local_hour_angle |-> lha, sin_altitude |-> sa,
         returned |-> IF is_nan(a) THEN NaN ELSE Num(to_degrees[Val(a)])]))))))

----------------------------------------------------------------------------
(* the inputs *)

\* the number of equal steps the latitudes -90 .. 90 are sampled in
LatSteps == 6

\* the number of equal steps the longitudes -180 .. 180 are sampled in
LonSteps == 8

\* every DayStride-th day from 1970-01-01 to 2100-01-01 is converted
DayStride == 2500

\* the seconds of the day converted are the multiples of SecStride modulo a
\* day, SecCount of them
SecStride == 7919

SecCount == 12

\* 2022-01-01 and 2022-12-31, the year of tests::sunrise_and_sunset_land_on_requested_day
FIRST_DAY_2022 == 18993

LAST_DAY_2022 == 19357

\* 2022-03-20, 2022-06-21, 2022-12-21
MARCH_EQUINOX == 19071

JUNE_SOLSTICE == 19164

DECEMBER_SOLSTICE == 19347

\* 2100-01-01
DAY_2100 == 47482

\* the place of the test: 53.38 N, 1.48 W, at sea level
SHEFFIELD == [latitude |-> 53380000, longitude |-> -1480000, elevation |-> 0]

\* the latitude of examples/plot.rs
PLOT_LATITUDE == 80000000

\* 2022-01-02 00:06:48 UTC at 22.926029 S, 2.866057 E: the sun is at the zenith
NEAR_ZENITH ==
    [fn |-> "altitude", date_time |-> [days |-> 18994, secs |-> 408, nanos |-> 0],
     latitude |-> -22926029, longitude |-> 2866057]

Latitudes ==
    {((180 * SCALE) \div LatSteps) * k - 90 * SCALE : k \in 0 .. LatSteps}
      \cup {-90 * SCALE, 0, PLOT_LATITUDE, 90 * SCALE}

Longitudes ==
    {((360 * SCALE) \div LonSteps) * k - 180 * SCALE : k \in 0 .. LonSteps}
      \cup {-180 * SCALE, 0, 180 * SCALE}

\* metres: two negative elevations, sea level, a mountain
Elevations == {-500 * SCALE, -1, 0, 2000 * SCALE}

\* 1970-01-01, an equinox, the solstices, and the last date of chrono
SampleDates == {0, MARCH_EQUINOX, JUNE_SOLSTICE, DECEMBER_SOLSTICE, MAX_UTC_DAY}

SunTimesInputs ==
    {[fn |-> "sun_times", date |-> d, latitude |-> SHEFFIELD.latitude,
      longitude |-> SHEFFIELD.longitude, elevation |-> SHEFFIELD.elevation] :
        d \in FIRST_DAY_2022 .. LAST_DAY_2022}
      \cup [fn : {"sun_times"}, date : SampleDates, latitude : Latitudes,
            longitude : Longitudes, elevation : Elevations]

\* seconds of the day: midnight, 06:30:15, 12:00:01, 23:59:59
SampleTimes == {0, 23415, 43201, 86399}

AltitudeInputs ==
    {[fn |-> "altitude", date_time |-> and_hms_opt(d, h, 0, 0),
      latitude |-> PLOT_LATITUDE, longitude |-> lon] :
        d \in {JUNE_SOLSTICE, DECEMBER_SOLSTICE}, h \in 0 .. 23, lon \in Longitudes}
      \cup {[fn |-> "altitude", date_time |-> [days |-> d, secs |-> t, nanos |-> 0],
             latitude |-> lat, longitude |-> lon] :
               d \in {MARCH_EQUINOX}, t \in SampleTimes,
               lat \in Latitudes, lon \in Longitudes}
      \cup {NEAR_ZENITH}

\* instants from 1970 to 2100
Instants ==
    [fn    : {"from"},
     days  : {k * DayStride : k \in 0 .. (DAY_2100 \div DayStride)} \cup {DAY_2100 - 1},
     secs  : {(k * SecStride) % SECONDS_PER_DAY : k \in 0 .. SecCount}
               \cup {SECONDS_PER_DAY - 1},
     nanos : {0, 1, 999999999}]

----------------------------------------------------------------------------
(* the calls: the library keeps no state, and a call is entered with its    *)
(* arguments, runs, and returns                                             *)

Init ==
    /\ pc = "idle"
    /\ args = <<>>
    /\ locals = <<>>
    /\ result = <<>>

\* a caller enters one of the functions with its arguments
Call ==
    /\ pc = "idle"
    /\ args' \in SunTimesInputs \cup AltitudeInputs \cup Instants
    /\ pc' = "called"
    /\ UNCHANGED <<locals, result>>

\* pub fn sun_times
SunTimes ==
    /\ pc = "called"
    /\ args.fn = "sun_times"
    /\ locals' = sun_times(args.date, args.latitude, args.longitude, args.elevation)
    /\ result' = locals'.returned
    /\ pc' = "sun_times"
    /\ UNCHANGED args

\* pub fn altitude
Altitude ==
    /\ pc = "called"
    /\ args.fn = "altitude"
    /\ locals' = altitude(args.date_time, args.latitude, args.longitude)
    /\ result' = locals'.returned
    /\ pc' = "altitude"
    /\ UNCHANGED args

\* JulianDate::from(date_time)
From ==
    /\ pc = "called"
    /\ args.fn = "from"
    /\ locals' = [julian_date |-> from(args)]
    /\ pc' = "from"
    /\ UNCHANGED <<args, result>>

\* julian_date.to_datetime(), on the Julian date just made
ToDatetime ==
    /\ pc = "from"
    /\ result' = to_datetime(locals.julian_date)
    /\ pc' = "to_datetime"
    /\ UNCHANGED <<args, locals>>

\* the caller takes the result; nothing of the call is kept
Return ==
    /\ pc \in {"sun_times", "altitude", "to_datetime"}
    /\ pc' = "idle"
    /\ args' = <<>>
    /\ locals' = <<>>
    /\ result' = <<>>

Next == Call \/ SunTimes \/ Altitude \/ From \/ ToDatetime \/ Return

Spec == Init /\ [][Next]_vars

----------------------------------------------------------------------------
(* the properties *)

\* what a finished call of sun_times returned, when it returned Some
Returned == Val(result)

\* the seconds from instant a to instant b
SecondsBetween(a, b) == (b.days - a.days) * SECONDS_PER_DAY + (b.secs - a.secs)

\* C1: for every date of 2022, sun_times(date, 53.38, -1.48, 0.0) returns
\* Some((rise, set)), and rise and set both have the UTC calendar date of the
\* input date
C1_SheffieldYearSameDay ==
    (/\ pc = "sun_times"
     /\ args.date \in FIRST_DAY_2022 .. LAST_DAY_2022
     /\ args.latitude = SHEFFIELD.latitude
     /\ args.longitude = SHEFFIELD.longitude
     /\ args.elevation = SHEFFIELD.elevation)
    => /\ result # None
       /\ Returned.rise.days = args.date
       /\ Returned.set.days = args.date

\* C1: the call for the last day of 2022 at Sheffield has returned a rise and
\* a set on that day
C1_Witness ==
    /\ pc = "sun_times"
    /\ args.date = LAST_DAY_2022
    /\ args.latitude = SHEFFIELD.latitude
    /\ args.longitude = SHEFFIELD.longitude
    /\ args.elevation = SHEFFIELD.elevation
    /\ result # None
    /\ Returned.rise.days = LAST_DAY_2022
    /\ Returned.set.days = LAST_DAY_2022
    /\ Returned.rise.secs < Returned.set.secs

\* C2 as stated: whenever sun_times returns Some((rise, set)), for a longitude
\* in -180 .. 180, rise and set both fall on the UTC calendar day of the input
\* date
C2_SameDayEverywhere ==
    (/\ pc = "sun_times"
     /\ args.longitude >= -180 * SCALE
     /\ args.longitude <= 180 * SCALE
     /\ result # None)
    => /\ Returned.rise.days = args.date
       /\ Returned.set.days = args.date

\* C2 amended: whenever sun_times returns Some((rise, set)), for a longitude
\* in -180 .. 180, rise and set each fall on the UTC calendar day of the input
\* date, on the day before it or on the day after it
C2_WithinOneDay ==
    (/\ pc = "sun_times"
     /\ args.longitude >= -180 * SCALE
     /\ args.longitude <= 180 * SCALE
     /\ result # None)
    => /\ Returned.rise.days \in (args.date - 1) .. (args.date + 1)
       /\ Returned.set.days \in (args.date - 1) .. (args.date + 1)

\* C2: a call has returned a rise on the input date and a set on the day
\* after it
C2_Witness ==
    /\ pc = "sun_times"
    /\ args.longitude >= -180 * SCALE
    /\ args.longitude <= 180 * SCALE
    /\ result # None
    /\ Returned.rise.days = args.date
    /\ Returned.set.days = args.date + 1

\* C3: when the argument of the arccosine is outside [-1, 1], sun_times
\* returns None; and it returns Some only when the hour angle is a number and
\* both Julian dates convert to the instants returned
C3_NoneOutsideArccosineDomain ==
    pc = "sun_times"
    => /\ (~is_nan(locals.argument) /\ Abs(Val(locals.argument)) > SCALE)
            => result = None
       /\ result # None
            => /\ ~is_nan(locals.event_hour_angle)
               /\ locals.julian # None
               /\ to_datetime(Val(locals.julian).rise) = Some(Returned.rise)
               /\ to_datetime(Val(locals.julian).set) = Some(Returned.set)

\* C3: a call whose arccosine argument is below -1 (polar day) has returned
\* None
C3_Witness ==
    /\ pc = "sun_times"
    /\ ~is_nan(locals.argument)
    /\ Val(locals.argument) < -SCALE
    /\ result = None

\* C4: at latitude 80 and elevation 0 sun_times returns None on 2022-12-21
\* and on 2022-06-21; at each of the 24 hours of 2022-12-21 the altitude is
\* below 0 degrees, and at each of the 24 hours of 2022-06-21 it is above 0
C4_PolarNightAndDay ==
    /\ (/\ pc = "sun_times"
        /\ args.latitude = PLOT_LATITUDE
        /\ args.elevation = 0
        /\ args.date \in {DECEMBER_SOLSTICE, JUNE_SOLSTICE})
       => result = None
    /\ (/\ pc = "altitude"
        /\ args.latitude = PLOT_LATITUDE
        /\ args.date_time.days = DECEMBER_SOLSTICE
        /\ args.date_time.secs % 3600 = 0)
       => (~is_nan(result) /\ Val(result) < 0)
    /\ (/\ pc = "altitude"
        /\ args.latitude = PLOT_LATITUDE
        /\ args.date_time.days = JUNE_SOLSTICE
        /\ args.date_time.secs % 3600 = 0)
       => (~is_nan(result) /\ Val(result) > 0)

\* C4: the altitude at latitude 80, longitude 0, has been computed for
\* 2022-12-21 12:00 and is below 0
C4_Witness ==
    /\ pc = "altitude"
    /\ args.latitude = PLOT_LATITUDE
    /\ args.longitude = 0
    /\ args.date_time = and_hms_opt(DECEMBER_SOLSTICE, 12, 0, 0)
    /\ ~is_nan(result)
    /\ Val(result) < 0

\* C5: an instant between 1970 and 2100, converted to a JulianDate and back,
\* comes back as Some instant less than one second from the original
C5_RoundTripWithinOneSecond ==
    pc = "to_datetime"
    => /\ result # None
       /\ \/ /\ SecondsBetween(Returned, args) = 0
             /\ args.nanos - Returned.nanos < 1000000000
             /\ Returned.nanos - args.nanos < 1000000000
          \/ /\ SecondsBetween(Returned, args) = 1
             /\ args.nanos < Returned.nanos
          \/ /\ SecondsBetween(Returned, args) = -1
             /\ args.nanos > Returned.nanos

\* C5: the last second of 2099, with 999999999 nanoseconds, has been converted
\* there and back, and came back as that second
C5_Witness ==
    /\ pc = "to_datetime"
    /\ args.days = DAY_2100 - 1
    /\ args.secs = SECONDS_PER_DAY - 1
    /\ args.nanos = 999999999
    /\ result = Some([days |-> DAY_2100 - 1, secs |-> SECONDS_PER_DAY - 1, nanos |-> 0])

\* C6: for a negative elevation sun_times returns None, whatever the date,
\* latitude and longitude: the elevation correction is NaN and so is the hour
\* angle
C6_NegativeElevationNone ==
    (pc = "sun_times" /\ args.elevation < 0)
    => /\ is_nan(locals.elevation_correction)
       /\ is_nan(locals.event_hour_angle)
       /\ result = None

\* C6: a call at the equator on the equinox, with an elevation just below 0,
\* has returned None
C6_Witness ==
    /\ pc = "sun_times"
    /\ args.elevation = -1
    /\ args.latitude = 0
    /\ args.date = MARCH_EQUINOX
    /\ is_nan(locals.elevation_correction)
    /\ result = None

\* C7: altitude returns a number, never NaN, for every instant, every
\* latitude in -90 .. 90 and every longitude in -180 .. 180
C7_AltitudeIsANumber ==
    (/\ pc = "altitude"
     /\ Abs(args.latitude) <= 90 * SCALE
     /\ Abs(args.longitude) <= 180 * SCALE)
    => ~is_nan(result)

\* the local sidereal time of the documented formula, in degrees:
\* mean_solar_time + (hour + minute/60 + second/3600) * 15 + longitude
DocumentedSiderealTime ==
    WAdd(WAdd(locals.position.mean_solar_time,
              W[0, (hour(args.date_time) * SCALE
                      + RoundDiv[minute(args.date_time) * SCALE, 60]
                      + RoundDiv[second(args.date_time) * SCALE, 3600]) * 15]),
         W[0, args.longitude])

\* C8: in altitude the local sidereal time is
\* mean_solar_time + (hour + minute/60 + second/3600) * 15 + longitude, in
\* degrees (to a thousandth of a degree, for the rounding)
C8_SiderealTimeFormula ==
    pc = "altitude"
    => \/ /\ WSub(locals.local_sideral_time, DocumentedSiderealTime).w = 0
          /\ WSub(locals.local_sideral_time, DocumentedSiderealTime).u <= 1000
       \/ /\ WSub(locals.local_sideral_time, DocumentedSiderealTime).w = -1
          /\ WSub(locals.local_sideral_time, DocumentedSiderealTime).u >= SCALE - 1000

\* the hour angle of the equation
\*   acos((sin(horizon + elevation_correction) - sin(lat) sin(decl))
\*          / (cos(lat) cos(decl))),
\* in degrees, for a horizon constant in degrees and the locals of the call
HourAngleWith(horizon) ==
    Bind(acos(Div[sin[to_radians[horizon + Val(locals.elevation_correction)]]
                    - Mul[sin[to_radians[args.latitude]],
                          sin[locals.position.declination]],
                  Mul[cos[to_radians[args.latitude]],
                      cos[locals.position.declination]]]),
         LAMBDA a : IF is_nan(a) THEN NaN ELSE Num(to_degrees[Val(a)]))

\* elevation_correction = -2.076 * sqrt(elevation) / 60, NaN below sea level
CorrectionOfElevation ==
    IF args.elevation < 0 THEN NaN
    ELSE Num(RoundDiv[Mul[-2076000, Val(sqrt[args.elevation])], 60])

\* C9 as stated: in sun_times the event hour angle is that of the equation
\* with the horizon constant -0.833 degrees, and
\* elevation_correction = -2.076 * sqrt(elevation) / 60
C9_HorizonIsStandard ==
    pc = "sun_times"
    => /\ locals.elevation_correction = CorrectionOfElevation
       /\ ~is_nan(locals.elevation_correction)
            => locals.event_hour_angle = HourAngleWith(-833000)

\* C9 amended: in sun_times the event hour angle is that of the equation with
\* the horizon constant -0.83 degrees, and
\* elevation_correction = -2.076 * sqrt(elevation) / 60
C9_HorizonIsTwoDigits ==
    pc = "sun_times"
    => /\ locals.elevation_correction = CorrectionOfElevation
       /\ ~is_nan(locals.elevation_correction)
            => locals.event_hour_angle = HourAngleWith(-830000)

\* C9: a call at 2000 m has returned with an hour angle that is the one of
\* -0.83 degrees and is not the one of -0.833 degrees
C9_Witness ==
    /\ pc = "sun_times"
    /\ args.elevation = 2000 * SCALE
    /\ result # None
    /\ locals.elevation_correction = CorrectionOfElevation
    /\ locals.event_hour_angle = HourAngleWith(-830000)
    /\ locals.event_hour_angle # HourAngleWith(-833000)

\* the solar transit of the call as days and millionths of a day since
\* 1970-01-01
TransitSinceEpoch == WSub(locals.solar_transit, UNIX_EPOCH)

\* the seconds from the midnight that starts the day of the solar transit to
\* an instant
SecondsFromTransitDay(instant) ==
    (instant.days - TransitSinceEpoch.w) * SECONDS_PER_DAY + instant.secs

\* C10: whenever sun_times returns Some((rise, set)), the hour angle is in
\* [0, 180] degrees, rise is not later than set, set is at most one day after
\* rise, and rise is as long before the solar transit as set is after it, to
\* within one second (in units of 1/625 s: the transit is u * 54 / 625 seconds
\* into its day)
C10_RiseSetAroundTransit ==
    (pc = "sun_times" /\ result # None)
    => /\ Val(locals.event_hour_angle) >= 0
       /\ Val(locals.event_hour_angle) <= 180 * SCALE
       /\ SecondsBetween(Returned.rise, Returned.set) >= 0
       /\ SecondsBetween(Returned.rise, Returned.set) <= SECONDS_PER_DAY
       /\ Abs((SecondsFromTransitDay(Returned.rise) + SecondsFromTransitDay(Returned.set))
                * 625 - 108 * TransitSinceEpoch.u) <= 625

\* C10: a call has returned a rise strictly before its set, with a positive
\* hour angle
C10_Witness ==
    /\ pc = "sun_times"
    /\ result # None
    /\ Val(locals.event_hour_angle) > 0
    /\ SecondsBetween(Returned.rise, Returned.set) > 0
    /\ SecondsBetween(Returned.rise, Returned.set) < SECONDS_PER_DAY

====
